---- MODULE Spec2Model ----
(***************************************************************************)
(* Model of the wisp compiler's code generation and serialization:         *)
(* emitter.rs (AST -> Module), resolver.rs (types), encoder.rs (LEB128)    *)
(* and compiler.rs (Module -> byte stream).                                *)
(*                                                                         *)
(* One compilation pass is a behaviour: the toplevel declarations are      *)
(* emitted one after the other (EmitToplevel), the list of toplevels ends  *)
(* (EmitDone), and compile_into_wasm writes the header and the four        *)
(* sections in turn.                                                       *)
(***************************************************************************)
EXTENDS Integers, Sequences, FiniteSets, TLC

VARIABLES
    module,     \* emitter.rs Module: signatures, exports, functions
    pc,         \* position of the pass
    log,        \* the toplevels emit_module has processed, in source order
    err,        \* the error the pass ended with, "none" while it runs
    out,        \* the bytes compile_into_wasm has given to its writer
    funcIter,   \* iteration order of module.functions during serialization
    arg,        \* input of the pure function under check
    res         \* its result

vars == <<module, pc, log, err, out, funcIter, arg, res>>

----------------------------------------------------------------------------
(* Bounds of the model. *)

MaxDecls == 3

\* depth of the expression tree of the long function body
NestDepth == 6

\* operands of a list form emitted on its own
MaxArgs == 3

\* parameters of a signature written on its own
MaxParams == 129

----------------------------------------------------------------------------
(* Sequence helpers. *)

RECURSIVE Repeat(_, _)
Repeat(x, n) == IF n <= 0 THEN <<>> ELSE <<x>> \o Repeat(x, n - 1)

RECURSIVE Pow(_, _)
Pow(b, n) == IF n <= 0 THEN 1 ELSE b * Pow(b, n - 1)

\* the concatenation of seqs[lo..hi], by halves
RECURSIVE ConcatRange(_, _, _)
ConcatRange(seqs, lo, hi) ==
    IF lo > hi THEN <<>>
    ELSE IF lo = hi THEN seqs[lo]
    ELSE ConcatRange(seqs, lo, (lo + hi) \div 2) \o ConcatRange(seqs, (lo + hi) \div 2 + 1, hi)

Concat(seqs) == ConcatRange(seqs, 1, Len(seqs))

Perms(S) == {p \in [1..Cardinality(S) -> S] : \A x \in S : \E i \in DOMAIN p : p[i] = x}

----------------------------------------------------------------------------
(* resolver.rs *)

Type == {"I32", "F32", "Bool", "Unit"}

TypeAST == {"i32", "f32", "bool", "unit"}

resolve_type(t) ==
    CASE t = "i32"  -> "I32"
      [] t = "f32"  -> "F32"
      [] t = "bool" -> "Bool"
      [] t = "unit" -> "Unit"

dissolve_type(t) ==
    CASE t = "I32"  -> <<"I32">>
      [] t = "Bool" -> <<"I32">>
      [] t = "F32"  -> <<"F32">>
      [] t = "Unit" -> <<>>

----------------------------------------------------------------------------
(* The AST of the parser, as emitter.rs matches on it.  A number literal   *)
(* carries its raw text as a sequence of characters; the lexer only puts   *)
(* digits and '.' into one.                                                *)

Sym(name) == [k |-> "Symbol", name |-> name]
SymAnn(name, t) == [k |-> "SymbolWithAnnotation", name |-> name, t |-> t]
Num(text) == [k |-> "NumberLiteral", text |-> text]
List(items) == [k |-> "List", items |-> items]
Vector(items) == [k |-> "Vector", items |-> items]
Add == [k |-> "Add"]
Sub == [k |-> "Sub"]
Mul == [k |-> "Mul"]
Div == [k |-> "Div"]

Digits == <<"0", "1", "2", "3", "4", "5", "6", "7", "8", "9">>

IsDigit(c) == \E i \in DOMAIN Digits : Digits[i] = c

DigitVal(c) == (CHOOSE i \in DOMAIN Digits : Digits[i] = c) - 1

I32Max == 2147483647

\* Value of a digit string, or -1 when it exceeds i32 (checked before each
\* step, so that no intermediate value leaves the range).
RECURSIVE DigitsValue(_, _)
DigitsValue(text, acc) ==
    IF text = <<>> THEN acc
    ELSE LET d == DigitVal(Head(text)) IN
         IF acc > (I32Max - d) \div 10 THEN -1
         ELSE DigitsValue(Tail(text), acc * 10 + d)

\* literal.parse::<i32>(): one or more digits, in range.
ParseI32(text) ==
    IF text # <<>> /\ \A i \in DOMAIN text : IsDigit(text[i])
    THEN LET v == DigitsValue(text, 0) IN
         IF v >= 0 THEN [ok |-> TRUE, n |-> v] ELSE [ok |-> FALSE, n |-> 0]
    ELSE [ok |-> FALSE, n |-> 0]

DotCount(text) == Cardinality({i \in DOMAIN text : text[i] = "."})

\* literal.parse::<f32>() on a text of digits and dots: digits with at most
\* one dot and at least one digit.
IsF32Text(text) ==
    /\ \A i \in DOMAIN text : IsDigit(text[i]) \/ text[i] = "."
    /\ DotCount(text) <= 1
    /\ \E i \in DOMAIN text : IsDigit(text[i])

StripDot(text) == SelectSeq(text, IsDigit)

FracDigits(text) ==
    IF DotCount(text) = 0 THEN 0
    ELSE Len(text) - (CHOOSE i \in DOMAIN text : text[i] = ".")

\* floor(log2(n / d)) for n, d > 0
RECURSIVE Log2Up(_, _, _)
Log2Up(n, d, e) == IF n >= 2 * d * Pow(2, e) THEN Log2Up(n, d, e + 1) ELSE e
RECURSIVE Log2Down(_, _, _)
Log2Down(n, d, e) == IF n * Pow(2, e) < d THEN Log2Down(n, d, e + 1) ELSE -e
Log2(n, d) == IF n >= d THEN Log2Up(n, d, 0) ELSE Log2Down(n, d, 0)

\* round-half-even of n / d
RoundDiv(n, d) ==
    LET q == n \div d
        r == n % d
    IN  IF 2 * r > d \/ (2 * r = d /\ q % 2 = 1) THEN q + 1 ELSE q

\* The IEEE-754 binary32 bit pattern nearest to n / d (n > 0, d > 0), for
\* values in the normal range whose scaled numerator fits 32-bit integer
\* arithmetic: e is the exponent, m the 24-bit significand.
F32Mantissa(n, d, e) ==
    IF e <= 23 THEN RoundDiv(n * Pow(2, 23 - e), d) ELSE RoundDiv(n, d * Pow(2, e - 23))

F32Pack(e, m) ==
    IF m = 16777216 THEN (e + 1 + 127) * 8388608
    ELSE (e + 127) * 8388608 + (m - 8388608)

F32Normal(n, d, e) == F32Pack(e, F32Mantissa(n, d, e))

F32Bits(n, d) == IF n = 0 THEN 0 ELSE F32Normal(n, d, Log2(n, d))

ParseF32(text) ==
    IF IsF32Text(text)
    THEN [ok |-> TRUE,
          bits |-> F32Bits(DigitsValue(StripDot(text), 0), Pow(10, FracDigits(text)))]
    ELSE [ok |-> FALSE, bits |-> 0]

----------------------------------------------------------------------------
(* emitter.rs: opcodes, environment, results of the emit functions.        *)

Op(name) == [op |-> name]
OpN(name, n) == [op |-> name, n |-> n]

\* env.rs (Env::set / Env::get on one function scope over an empty parent)
EmptyEnv == [n \in {} |-> 0]

EnvSet(env, name, variable) ==
    [n \in DOMAIN env \cup {name} |-> IF n = name THEN variable ELSE env[n]]

EnvHas(env, name) == name \in DOMAIN env

\* Result<Rc<Type>> of an emit function together with the buffer it wrote to:
\* st is "ok", the kind of the error returned, or "panic".
Ok(codes, t) == [st |-> "ok", codes |-> codes, t |-> t]
Fail(kind, codes) == [st |-> kind, codes |-> codes, t |-> "Unit"]

BinOps == {"Add", "Sub", "Mul", "Div"}

I32Opcode(op) == Op("I32" \o op)
F32Opcode(op) == Op("F32" \o op)

\* The match of emit_bin_exp (lines 135-218): the arithmetic opcode, the result
\* type and the operand buffer that receives F32ConvertI32S.
BinMatchCastsF32Side(op, lhs_type, rhs_type) ==
    IF lhs_type = "I32" THEN
        CASE rhs_type = "F32" -> [st |-> "ok", opcode |-> F32Opcode(op), t |-> "F32", cast |-> "rhs"]
          [] rhs_type = "I32" -> [st |-> "ok", opcode |-> I32Opcode(op), t |-> "I32", cast |-> "none"]
          [] OTHER -> [st |-> "TypeMismatchError", opcode |-> Op("End"), t |-> "Unit", cast |-> "none"]
    ELSE IF lhs_type = "F32" THEN
        CASE rhs_type = "I32" -> [st |-> "ok", opcode |-> F32Opcode(op), t |-> "F32", cast |-> "lhs"]
          [] rhs_type = "F32" -> [st |-> "ok", opcode |-> F32Opcode(op), t |-> "F32", cast |-> "none"]
          [] OTHER -> [st |-> "TypeMismatchError", opcode |-> Op("End"), t |-> "Unit", cast |-> "none"]
    ELSE [st |-> "TypeMismatchError", opcode |-> Op("End"), t |-> "Unit", cast |-> "none"]

BinMatch(op, lhs_type, rhs_type) ==
    IF lhs_type = "I32" THEN
        CASE rhs_type = "F32" -> [st |-> "ok", opcode |-> F32Opcode(op), t |-> "F32", cast |-> "lhs"]
          [] rhs_type = "I32" -> [st |-> "ok", opcode |-> I32Opcode(op), t |-> "I32", cast |-> "none"]
          [] OTHER -> [st |-> "TypeMismatchError", opcode |-> Op("End"), t |-> "Unit", cast |-> "none"]
    ELSE IF lhs_type = "F32" THEN
        CASE rhs_type = "I32" -> [st |-> "ok", opcode |-> F32Opcode(op), t |-> "F32", cast |-> "rhs"]
          [] rhs_type = "F32" -> [st |-> "ok", opcode |-> F32Opcode(op), t |-> "F32", cast |-> "none"]
          [] OTHER -> [st |-> "TypeMismatchError", opcode |-> Op("End"), t |-> "Unit", cast |-> "none"]
    ELSE [st |-> "TypeMismatchError", opcode |-> Op("End"), t |-> "Unit", cast |-> "none"]

\* Rc<RefCell<HashMap>> (line 70): the table and whether a RefMut of it is alive
RefCell(value) == [value |-> value, borrowed |-> FALSE]

\* borrow_mut (line 282); the RefMut lives until the call arm ends (line 285)
BorrowMut(cell) == [cell EXCEPT !.borrowed = TRUE]

\* self.module.functions.get(name) at the call site (lines 281-283)
LookupFunction(fns, name) == name \in DOMAIN fns

RECURSIVE emit_obj(_, _, _, _)
RECURSIVE emit_list(_, _, _, _)
RECURSIVE emit_args(_, _, _, _)

\* r: what emit_obj returned for the operand, emitted into temp_vec
UnaryMatchZeroAfter(codes, r) ==
    IF r.st # "ok" THEN Fail(r.st, codes)
    ELSE CASE r.t = "F32" -> Ok(codes \o r.codes \o <<Op("F32Neg")>>, "F32")
           [] r.t = "I32" -> Ok(codes \o r.codes \o <<OpN("I32Const", 0)>> \o <<Op("I32Sub")>>, "I32")
           [] OTHER -> Fail("TypeMismatchError", codes)

UnaryMatch(codes, r) ==
    IF r.st # "ok" THEN Fail(r.st, codes)
    ELSE CASE r.t = "F32" -> Ok(codes \o r.codes \o <<Op("F32Neg")>>, "F32")
           [] r.t = "I32" -> Ok(codes \o <<OpN("I32Const", 0)>> \o r.codes \o <<Op("I32Sub")>>, "I32")
           [] OTHER -> Fail("TypeMismatchError", codes)

emit_unary_exp(codes, operand, env, fns) ==
    UnaryMatch(codes, emit_obj(<<>>, operand, env, fns))

\* lines 219-222, after the match m chose the opcode and the cast
BinAppend(codes, l, r, m) ==
    IF m.st # "ok" THEN Fail(m.st, codes)
    ELSE Ok(codes
            \o (IF m.cast = "lhs" THEN l.codes \o <<Op("F32ConvertI32S")>> ELSE l.codes)
            \o (IF m.cast = "rhs" THEN r.codes \o <<Op("F32ConvertI32S")>> ELSE r.codes)
            \o <<m.opcode>>,
            m.t)

\* l, r: what emit_obj returned for lhs and rhs, each emitted into its own
\* temp_vec (lines 130-133)
BinAfterRhs(codes, op, l, r) ==
    IF r.st # "ok" THEN Fail(r.st, codes)
    ELSE BinAppend(codes, l, r, BinMatch(op, l.t, r.t))

BinAfterLhs(codes, op, l, rhs, env, fns) ==
    IF l.st # "ok" THEN Fail(l.st, codes)
    ELSE BinAfterRhs(codes, op, l, emit_obj(<<>>, rhs, env, fns))

emit_bin_exp(codes, op, lhs, rhs, env, fns) ==
    BinAfterLhs(codes, op, emit_obj(<<>>, lhs, env, fns), rhs, env, fns)

\* the loop of emit_function_call (lines 232-234): the arguments are emitted
\* straight into the caller's buffer, and the first failure returns
ArgsAfter(r, args, env, fns) ==
    IF r.st # "ok" THEN r ELSE emit_args(r.codes, Tail(args), env, fns)

emit_args(codes, args, env, fns) ==
    IF args = <<>> THEN Ok(codes, "Unit")
    ELSE ArgsAfter(emit_obj(codes, Head(args), env, fns), args, env, fns)

\* lines 235-236
CallAfterArgs(r, index, func) ==
    IF r.st # "ok" THEN r
    ELSE Ok(r.codes \o <<OpN("Call", index)>>, func.result_type)

emit_function_call(codes, index, func, args, env, fns) ==
    CallAfterArgs(emit_args(codes, args, env, fns), index, func)

\* the match on list.len() of the - arm (lines 262-274)
SubArmVariadic(len) ==
    CASE len = 2 -> "unary" [] len >= 3 -> "binary" [] OTHER -> "arity"

SubArm(len) ==
    CASE len = 2 -> "unary" [] len = 3 -> "binary" [] OTHER -> "arity"

\* the arms of the match on the head of the list (lines 242-291); fns is the
\* cell of the function table: borrow_mut on a cell whose RefMut is alive, as
\* it is while the arguments of a call are emitted, panics
ListMatch(codes, list, first, env, fns) ==
    CASE first.k \in {"Add", "Mul", "Div"} ->
            IF Len(list) # 3 THEN Fail("ArityError", codes)
            ELSE emit_bin_exp(codes, first.k, list[2], list[3], env, fns)
      [] first.k = "Sub" ->
            CASE SubArm(Len(list)) = "unary" -> emit_unary_exp(codes, list[2], env, fns)
              [] SubArm(Len(list)) = "binary" ->
                    emit_bin_exp(codes, "Sub", list[2], list[3], env, fns)
              [] OTHER -> Fail("ArityError", codes)
      [] first.k = "Symbol" ->
            IF first.name = "let" THEN Fail("panic", codes)
            ELSE IF fns.borrowed THEN Fail("panic", codes)
            ELSE IF ~LookupFunction(fns.value, first.name)
                 THEN Fail("UnknownFunctionError", codes)
                 ELSE emit_function_call(codes, fns.value[first.name].index,
                                         fns.value[first.name].func, Tail(list), env,
                                         BorrowMut(fns))
      [] OTHER -> Fail("panic", codes)

emit_list(codes, ast, env, fns) ==
    IF ast.k # "List" THEN Fail("MalformedFormError", codes)
    ELSE IF ast.items = <<>> THEN Fail("panic", codes)
    ELSE ListMatch(codes, ast.items, ast.items[1], env, fns)

\* lines 300-309: an i32 if the text parses as one, else an f32
NumberLiteral(codes, i, f) ==
    IF i.ok THEN Ok(codes \o <<OpN("I32Const", i.n)>>, "I32")
    ELSE IF f.ok THEN Ok(codes \o <<OpN("F32Const", f.bits)>>, "F32")
    ELSE Fail("NumberFormatError", codes)

emit_obj(codes, ast, env, fns) ==
    CASE ast.k = "List" -> emit_list(codes, ast, env, fns)
      [] ast.k = "NumberLiteral" ->
            NumberLiteral(codes, ParseI32(ast.text), ParseF32(ast.text))
      [] ast.k = "Symbol" ->
            IF ~EnvHas(env, ast.name) THEN Fail("UnboundSymbolError", codes)
            ELSE Ok(codes \o <<OpN("LocalGet", env[ast.name].pointer)>>, env[ast.name].t)
      [] OTHER -> Fail("panic", codes)

----------------------------------------------------------------------------
(* emitter.rs: emit_func *)

EmptyModule ==
    [signatures |-> [s \in {} |-> 0], exports |-> <<>>, functions |-> [n \in {} |-> 0]]

U16 == 65536

Drops(t) == Repeat(Op("Drop"), Len(dissolve_type(t)))

\* The header of a declaration (lines 324-363): the export marker, the name
\* with its optional annotation, the parameter vector, the body forms.
\* Indexing a list that is too short panics.
ParseHeader(ast) ==
    LET bad(kind) == [st |-> kind, is_export |-> FALSE, name |-> "",
                      result_type_ast |-> "unit", args |-> <<>>, forms |-> <<>>]
    IN
    IF ast.k # "List" THEN bad("MalformedFormError")
    ELSE
    LET func_list == ast.items IN
    IF func_list = <<>> THEN bad("panic")
    ELSE IF func_list[1].k # "Symbol" THEN bad("panic")
    ELSE
    LET s == func_list[1].name
        is_export == s = "export"
    IN
    IF is_export /\ Len(func_list) < 2 THEN bad("panic")
    ELSE IF is_export /\ func_list[2] # Sym("defn") THEN bad("MalformedFormError")
    ELSE IF ~is_export /\ s # "defn" THEN bad("MalformedFormError")
    ELSE
    LET slice == IF is_export THEN SubSeq(func_list, 3, Len(func_list))
                 ELSE SubSeq(func_list, 2, Len(func_list))
    IN
    IF slice = <<>> THEN bad("panic")
    ELSE IF slice[1].k \notin {"SymbolWithAnnotation", "Symbol"} THEN bad("MalformedFormError")
    ELSE IF Len(slice) < 2 THEN bad("panic")
    ELSE IF slice[2].k # "Vector" THEN bad("MalformedFormError")
    ELSE IF \E i \in DOMAIN slice[2].items : slice[2].items[i].k # "SymbolWithAnnotation"
         THEN bad("MalformedFormError")
    ELSE [st |-> "ok",
          is_export |-> is_export,
          name |-> slice[1].name,
          result_type_ast |-> IF slice[1].k = "SymbolWithAnnotation" THEN slice[1].t ELSE "unit",
          args |-> slice[2].items,
          forms |-> SubSeq(slice, 3, Len(slice))]

\* new_env.set for each parameter, local_index counting from 0 (lines 369-380)
RECURSIVE BindArgs(_, _, _)
BindArgs(env, args, local_index) ==
    IF args = <<>> THEN env
    ELSE BindArgs(EnvSet(env, Head(args).name,
                         [pointer |-> local_index, t |-> resolve_type(Head(args).t)]),
                  Tail(args), local_index + 1)

\* the loop over the body forms (lines 393-415), from form number index on
RECURSIVE emit_forms(_, _, _, _, _, _)

\* r: what emit_obj returned for form number index
FormAfterComparesSlots(r, forms, index, env, fns, result_type) ==
    IF r.st # "ok" THEN r
    ELSE IF index = Len(forms) THEN
        IF result_type = "Unit" THEN Ok(r.codes \o Drops(r.t), "Unit")
        ELSE IF dissolve_type(r.t) # dissolve_type(result_type)
             THEN Fail("ReturnTypeMismatchError", r.codes)
        ELSE Ok(r.codes, "Unit")
    ELSE emit_forms(r.codes \o Drops(r.t), forms, index + 1, env, fns, result_type)

FormAfter(r, forms, index, env, fns, result_type) ==
    IF r.st # "ok" THEN r
    ELSE IF index = Len(forms) THEN
        IF result_type = "Unit" THEN Ok(r.codes \o Drops(r.t), "Unit")
        ELSE IF r.t # result_type THEN Fail("ReturnTypeMismatchError", r.codes)
        ELSE Ok(r.codes, "Unit")
    ELSE emit_forms(r.codes \o Drops(r.t), forms, index + 1, env, fns, result_type)

emit_forms(func_body, forms, index, env, fns, result_type) ==
    IF index > Len(forms) THEN Ok(func_body, "Unit")
    ELSE FormAfter(emit_obj(func_body, forms[index], env, fns),
                   forms, index, env, fns, result_type)

FlatMapDissolve(arg_types) ==
    Concat([i \in DOMAIN arg_types |-> dissolve_type(arg_types[i])])

\* lines 418-425
SignatureOf(arg_types, result_type_ast) ==
    [sig_type |-> "Func",
     params |-> FlatMapDissolve(arg_types),
     results |-> dissolve_type(resolve_type(result_type_ast))]

\* lines 426-433: the interned index of a signature and the table afterwards
InternAlwaysNew(signatures, signature) ==
    LET index == Cardinality(DOMAIN signatures) % U16 IN
    [index |-> index,
     signatures |-> [s \in DOMAIN signatures \cup {signature} |->
                        IF s = signature THEN index ELSE signatures[s]]]

Intern(signatures, signature) ==
    IF signature \in DOMAIN signatures
    THEN [index |-> signatures[signature], signatures |-> signatures]
    ELSE LET index == Cardinality(DOMAIN signatures) % U16 IN
         [index |-> index,
          signatures |-> [s \in DOMAIN signatures \cup {signature} |->
                             IF s = signature THEN index ELSE signatures[s]]]

\* HashMap::insert (lines 435-446): an entry of the same name is replaced
InsertFunction(fns, name, entry) ==
    [n \in DOMAIN fns \cup {name} |-> IF n = name THEN entry ELSE fns[n]]

\* lines 448-454
PushExportAlways(exports, is_export, name, func_index) ==
    Append(exports, [export_type |-> "Func", name |-> name, func_index |-> func_index])

PushExport(exports, is_export, name, func_index) ==
    IF is_export
    THEN Append(exports, [export_type |-> "Func", name |-> name, func_index |-> func_index])
    ELSE exports

\* line 368
NextFuncIndex(fns) == Cardinality(DOMAIN fns)

\* lines 435-454: the function enters the table, the export the list
Register(m, h, func_index, interned, arg_types, func_body) ==
    [signatures |-> interned.signatures,
     functions |->
        InsertFunction(m.functions, h.name,
                       [index |-> func_index,
                        func |-> [signature_index |-> interned.index,
                                  arg_types |-> arg_types,
                                  result_type |-> resolve_type(h.result_type_ast),
                                  body |-> func_body]]),
     exports |-> PushExport(m.exports, h.is_export, h.name, func_index)]

ArgTypes(args) == [i \in DOMAIN args |-> resolve_type(args[i].t)]

\* b: what the loop over the body forms returned (lines 416-454)
FuncAfterBodyInternsFirst(m, h, func_index, b) ==
    IF b.st # "ok"
    THEN [st |-> b.st,
          module |-> [m EXCEPT !.signatures =
                        Intern(m.signatures,
                               SignatureOf(ArgTypes(h.args), h.result_type_ast)).signatures]]
    ELSE [st |-> "ok",
          module |-> Register(m, h, func_index,
                              Intern(m.signatures,
                                     SignatureOf(ArgTypes(h.args), h.result_type_ast)),
                              ArgTypes(h.args),
                              b.codes \o <<Op("End")>>)]

FuncAfterBody(m, h, func_index, b) ==
    IF b.st # "ok" THEN [st |-> b.st, module |-> m]
    ELSE [st |-> "ok",
          module |-> Register(m, h, func_index,
                              Intern(m.signatures,
                                     SignatureOf(ArgTypes(h.args), h.result_type_ast)),
                              ArgTypes(h.args),
                              b.codes \o <<Op("End")>>)]

\* the function table the body is emitted against: self.module.functions as
\* it is before the declaration registers itself (line 435 comes after the body)
CallableWithSelf(m, h) ==
    InsertFunction(m.functions, h.name,
                   [index |-> NextFuncIndex(m.functions),
                    func |-> [signature_index |-> 0, arg_types |-> <<>>,
                              result_type |-> resolve_type(h.result_type_ast),
                              body |-> <<>>]])

Callable(m, h) == m.functions

\* h: the parsed header (lines 365-416)
FuncAfterHeader(m, h) ==
    IF h.st # "ok" THEN [st |-> h.st, module |-> m]
    ELSE FuncAfterBody(m, h, NextFuncIndex(m.functions),
                       emit_forms(<<OpN("LocalDeclCount", 0)>>, h.forms, 1,
                                  BindArgs(EmptyEnv, h.args, 0), RefCell(Callable(m, h)),
                                  resolve_type(h.result_type_ast)))

\* emit_func: the result and the module as the call leaves it
emit_func(ast, m) == FuncAfterHeader(m, ParseHeader(ast))

----------------------------------------------------------------------------
(* encoder.rs *)

\* leb128::write::unsigned: seven bits a byte, low group first, the high bit
\* set on every byte but the last.  The value is held as two 16-bit halves,
\* hi * 65536 + lo, so that the whole of u32 is covered; the shift by seven
\* bits carries the low seven bits of hi into lo.
RECURSIVE write_unsigned(_, _)
write_unsigned_stops_on_sign(hi, lo) ==
    LET byte == lo % 128
        lo2 == (lo \div 128) + (hi % 128) * 512
        hi2 == hi \div 128
    IN  IF hi2 = 0 /\ lo2 = 0 /\ byte < 64 THEN <<byte>>
        ELSE <<byte + 128>> \o
             (IF hi2 = 0 /\ lo2 = 0 THEN <<0>> ELSE write_unsigned(hi2, lo2))

write_unsigned(hi, lo) ==
    LET byte == lo % 128
        lo2 == (lo \div 128) + (hi % 128) * 512
        hi2 == hi \div 128
    IN  IF hi2 = 0 /\ lo2 = 0 THEN <<byte>>
        ELSE <<byte + 128>> \o write_unsigned(hi2, lo2)

\* n.into() widens without changing the value
encode_leb128(n) == write_unsigned(n \div 65536, n % 65536)

\* leb128::write::signed: ends when the rest is the sign extension of bit 6
RECURSIVE encode_s_leb128(_)
encode_s_leb128(n) ==
    LET byte == n % 128
        rest == n \div 128
        done == (rest = 0 /\ byte < 64) \/ (rest = -1 /\ byte >= 64)
    IN  IF done THEN <<byte>> ELSE <<byte + 128>> \o encode_s_leb128(rest)

\* str::as_bytes for the names of the model
as_bytes(name) ==
    CASE name = "f" -> <<102>>
      [] name = "g" -> <<103>>
      [] name = "h" -> <<104>>
      [] name = "addTwo" -> <<97, 100, 100, 84, 119, 111>>
      [] name = "calc" -> <<99, 97, 108, 99>>
      [] name = "main" -> <<109, 97, 105, 110>>

encode_string(name) == encode_leb128(Len(as_bytes(name))) \o as_bytes(name)

----------------------------------------------------------------------------
(* compiler.rs *)

SectionCodeSwapped(section) ==
    CASE section = "Type"     -> 1
      [] section = "Function" -> 7
      [] section = "Export"   -> 3
      [] section = "Code"     -> 10

SectionCode(section) ==
    CASE section = "Type"     -> 1
      [] section = "Function" -> 3
      [] section = "Export"   -> 7
      [] section = "Code"     -> 10

\* PrimitiveType as u8 (emitter.rs lines 15-18)
PrimitiveByte(p) == CASE p = "I32" -> 127 [] p = "F32" -> 111

\* SignatureType as u8 (emitter.rs lines 28-30)
SignatureTypeByte(t) == CASE t = "Func" -> 96

AsU8(n) == n % 256

write_signature(signature) ==
    <<SignatureTypeByte(signature.sig_type)>>
    \o <<AsU8(Len(signature.params))>>
    \o [i \in DOMAIN signature.params |-> PrimitiveByte(signature.params[i])]
    \o <<AsU8(Len(signature.results))>>
    \o [i \in DOMAIN signature.results |-> PrimitiveByte(signature.results[i])]

write_export(export) ==
    encode_string(export.name)
    \o <<CASE export.export_type = "Func" -> 0>>
    \o encode_leb128(export.func_index)

\* f32::to_le_bytes of a bit pattern
to_le_bytes(bits) ==
    <<bits % 256, (bits \div 256) % 256, (bits \div 65536) % 256, (bits \div 16777216) % 256>>

\* The opcodes the match of write_function_body has an arm for (lines 52-86).
\* Drop and Call have none.
Writable(opcode) ==
    opcode.op \in {"LocalDeclCount", "F32Const", "I32Const", "LocalGet", "End",
                   "I32Add", "I32Sub", "I32Mul", "I32Div", "F32Neg",
                   "F32Add", "F32Sub", "F32Mul", "F32Div", "F32ConvertI32S"}

write_opcode(opcode) ==
    CASE opcode.op = "LocalDeclCount" -> encode_leb128(opcode.n)
      [] opcode.op = "F32Const" -> <<67>> \o to_le_bytes(opcode.n)
      [] opcode.op = "I32Const" -> <<65>> \o encode_s_leb128(opcode.n)
      [] opcode.op = "LocalGet" -> <<32>> \o encode_leb128(opcode.n)
      [] opcode.op = "End" -> <<11>>
      [] opcode.op = "I32Add" -> <<106>>
      [] opcode.op = "I32Sub" -> <<107>>
      [] opcode.op = "I32Mul" -> <<108>>
      [] opcode.op = "I32Div" -> <<109>>
      [] opcode.op = "F32Neg" -> <<140>>
      [] opcode.op = "F32Add" -> <<146>>
      [] opcode.op = "F32Sub" -> <<147>>
      [] opcode.op = "F32Mul" -> <<148>>
      [] opcode.op = "F32Div" -> <<149>>
      [] opcode.op = "F32ConvertI32S" -> <<178>>

write_function_body(body) == Concat([i \in DOMAIN body |-> write_opcode(body[i])])

BodyWritable(func) == \A i \in DOMAIN func.body : Writable(func.body[i])

\* signatures_with_index.sort_by(index) (line 98), a stable insertion sort of
\* the signatures as the table iterates them
RECURSIVE InsertSorted(_, _, _)
InsertSorted(sorted, x, signatures) ==
    IF sorted = <<>> THEN <<x>>
    ELSE IF signatures[x] < signatures[Head(sorted)] THEN <<x>> \o sorted
    ELSE <<Head(sorted)>> \o InsertSorted(Tail(sorted), x, signatures)

RECURSIVE SortByIndexFrom(_, _, _)
SortByIndexFrom(sorted, iter, signatures) ==
    IF iter = <<>> THEN sorted
    ELSE SortByIndexFrom(InsertSorted(sorted, Head(iter), signatures), Tail(iter), signatures)

Unsorted(iter, signatures) == iter

SortByIndex(iter, signatures) == SortByIndexFrom(<<>>, iter, signatures)

\* a section: its id, the length of the payload, the payload
SectionLenOff(section, payload) ==
    <<SectionCode(section)>> \o encode_leb128(Len(payload) + 1) \o payload

Section(section, payload) ==
    <<SectionCode(section)>> \o encode_leb128(Len(payload)) \o payload

\* iter: the order in which module.signatures iterates
type_section(m, iter) ==
    LET signatures_with_index == SortByIndex(iter, m.signatures) IN
    encode_leb128(Cardinality(DOMAIN m.signatures))
    \o Concat([i \in DOMAIN signatures_with_index |->
                  write_signature(signatures_with_index[i])])

write_type_section(m, iter) == Section("Type", type_section(m, iter))

\* iter: the order in which module.functions iterates
func_section(m, iter) ==
    encode_leb128(Cardinality(DOMAIN m.functions))
    \o Concat([i \in DOMAIN iter |->
                  encode_leb128(m.functions[iter[i]].func.signature_index)])

write_function_section(m, iter) == Section("Function", func_section(m, iter))

export_section(m) ==
    encode_leb128(Len(m.exports))
    \o Concat([i \in DOMAIN m.exports |-> write_export(m.exports[i])])

write_export_section(m) == Section("Export", export_section(m))

BodySizeTruncated(func_body_bytes) == <<AsU8(Len(func_body_bytes))>>

BodySize(func_body_bytes) == encode_leb128(Len(func_body_bytes))

code_entry(func) ==
    LET func_body_bytes == write_function_body(func.body) IN
    BodySize(func_body_bytes) \o func_body_bytes

code_section(m, iter) ==
    encode_leb128(Cardinality(DOMAIN m.functions))
    \o Concat([i \in DOMAIN iter |-> code_entry(m.functions[iter[i]].func)])

write_code_section(m, iter) == Section("Code", code_section(m, iter))

Magic == <<0, 97, 115, 109>>
Version == <<1, 0, 0, 0>>

----------------------------------------------------------------------------------------------------------------------------------------
(* The toplevel declarations a pass may be given. *)

Names == {"f", "g"}

Param(name, t) == [name |-> name, t |-> t]

\* result annotation ("none": a bare symbol) and parameter vector
HeaderI32 == [rt |-> "i32",  params |-> <<Param("a", "i32")>>]
HeaderF32 == [rt |-> "f32",  params |-> <<Param("a", "f32"), Param("b", "i32")>>]
HeaderUnit == [rt |-> "none", params |-> <<>>]
HeaderBool == [rt |-> "bool", params |-> <<Param("a", "bool")>>]

Headers == {HeaderI32, HeaderF32, HeaderUnit, HeaderBool}

\* a parameter without annotation ("none"), which emit_func refuses
HeaderBare == [rt |-> "f32", params |-> <<Param("a", "none")>>]

One == Num(<<"1">>)
Two == Num(<<"2">>)
OneAndHalf == Num(<<"1", ".", "5">>)

\* a balanced tree of additions, n levels deep, over the leaves a and 1
RECURSIVE Nest(_)
Nest(n) ==
    IF n = 0 THEN One
    ELSE IF n = 1 THEN List(<<Add, Sym("a"), One>>)
    ELSE List(<<Add, Nest(n - 1), Nest(n - 1)>>)

PlainBodies == {<<>>, <<Sym("a")>>}

CallBodies ==
    { <<List(<<Add, Sym("a"), One>>)>>,
      <<List(<<Sym("f"), One>>)>>,
      <<List(<<Sym("g"), One, Two>>), Sym("a")>>,
      <<List(<<Sub, OneAndHalf>>), List(<<Sym("g")>>)>> }

Decl(n, e, h, b) ==
    [name |-> n, is_export |-> e, rt |-> h.rt, params |-> h.params, forms |-> b]

\* the declarations of the emission passes: every header over the plain
\* bodies, the i32 and the unannotated header over the bodies with forms
EmitDecls ==
    {Decl(n, FALSE, h, b) : n \in Names, h \in Headers, b \in PlainBodies}
    \cup {Decl(n, FALSE, h, b) : n \in Names, h \in {HeaderI32, HeaderUnit}, b \in CallBodies}
    \cup {Decl(n, FALSE, HeaderBare, <<>>) : n \in Names}

\* the declarations of the passes that are serialized
Decls ==
    {Decl(n, e, HeaderI32, <<List(<<Add, Sym("a"), One>>)>>) : n \in Names, e \in BOOLEAN}
    \cup {Decl(n, FALSE, HeaderF32, <<List(<<Mul, OneAndHalf, Sym("b")>>)>>) : n \in Names}
    \cup {Decl("g", e, HeaderUnit, <<List(<<Sym("f"), One>>)>>) : e \in BOOLEAN}
    \cup {Decl("f", FALSE, HeaderI32, <<Nest(NestDepth)>>)}
    \cup {Decl("g", FALSE, HeaderUnit, <<List(<<Sym("let"), Vector(<<>>)>>)>>)}

\* the declaration as the parser hands it to emit_func
ToAST(d) ==
    List((IF d.is_export THEN <<Sym("export")>> ELSE <<>>)
         \o <<Sym("defn")>>
         \o <<IF d.rt = "none" THEN Sym(d.name) ELSE SymAnn(d.name, d.rt)>>
         \o <<Vector([i \in DOMAIN d.params |->
                        IF d.params[i].t = "none" THEN Sym(d.params[i].name)
                        ELSE SymAnn(d.params[i].name, d.params[i].t)])>>
         \o d.forms)

----------------------------------------------------------------------------
(* The pass. *)

Init ==
    /\ module = EmptyModule
    /\ pc = "emit"
    /\ log = <<>>
    /\ err = "none"
    /\ out = <<>>
    /\ funcIter = <<>>
    /\ arg = <<>>
    /\ res = <<>>

\* emit_module (lines 470-472): the next toplevel goes through emit_toplevel
\* and emit_func; an error ends the pass
EmitToplevel(d) ==
    /\ pc = "emit"
    /\ Len(log) < MaxDecls
    /\ LET r == emit_func(ToAST(d), module) IN
        /\ module' = r.module
        /\ log' = Append(log, [decl |-> d, st |-> r.st,
                               index |-> IF r.st = "ok"
                                         THEN r.module.functions[d.name].index ELSE -1])
        /\ pc' = CASE r.st = "ok" -> "emit" [] r.st = "panic" -> "panicked" [] OTHER -> "failed"
        /\ err' = IF r.st = "ok" THEN err ELSE r.st
    /\ UNCHANGED <<out, funcIter, arg, res>>

\* the toplevels are exhausted: emit returns Ok and compile_into_wasm goes on
EmitDone ==
    /\ pc = "emit"
    /\ pc' = "header"
    /\ UNCHANGED <<module, log, err, out, funcIter, arg, res>>

\* compile_into_wasm line 159: emit returned an error and unwrap panics
UnwrapEmit ==
    /\ pc = "failed"
    /\ pc' = "panicked"
    /\ UNCHANGED <<module, log, err, out, funcIter, arg, res>>

\* compile_into_wasm lines 161-162
WriteHeader ==
    /\ pc = "header"
    /\ out' = out \o Magic \o Version
    /\ pc' = "type"
    /\ UNCHANGED <<module, log, err, funcIter, arg, res>>

WriteTypeSection ==
    /\ pc = "type"
    /\ \E iter \in Perms(DOMAIN module.signatures) :
          out' = out \o write_type_section(module, iter)
    /\ pc' = "function"
    /\ UNCHANGED <<module, log, err, funcIter, arg, res>>

WriteFunctionSection ==
    /\ pc = "function"
    /\ \E iter \in Perms(DOMAIN module.functions) :
          /\ funcIter' = iter
          /\ out' = out \o write_function_section(module, iter)
    /\ pc' = "export"
    /\ UNCHANGED <<module, log, err, arg, res>>

WriteExportSection ==
    /\ pc = "export"
    /\ out' = out \o write_export_section(module)
    /\ pc' = "code"
    /\ UNCHANGED <<module, log, err, funcIter, arg, res>>

\* write_code_section; a body holding an opcode write_function_body has no arm
\* for is not written
WriteCodeSection ==
    /\ pc = "code"
    /\ IF \A n \in DOMAIN module.functions : BodyWritable(module.functions[n].func)
       THEN /\ out' = out \o write_code_section(module, funcIter)
            /\ pc' = "done"
            /\ err' = err
       ELSE /\ out' = out
            /\ pc' = "write_failed"
            /\ err' = "UnwritableOpcode"
    /\ UNCHANGED <<module, log, funcIter, arg, res>>

Next ==
    \/ \E d \in Decls : EmitToplevel(d)
    \/ EmitDone
    \/ UnwrapEmit
    \/ WriteHeader
    \/ WriteTypeSection
    \/ WriteFunctionSection
    \/ WriteExportSection
    \/ WriteCodeSection

Spec == Init /\ [][Next]_vars

\* the emission alone, over the wider set of declarations
EmitNext ==
    \/ \E d \in EmitDecls : EmitToplevel(d)
    \/ EmitDone

EmitSpec == Init /\ [][EmitNext]_vars

----------------------------------------------------------------------------
(* emit_bin_exp on its own: one binary form over operands of every type.  *)

\* the scope of the enclosing function: a : i32, b : f32, c : bool
BinEnv ==
    BindArgs(EmptyEnv, <<SymAnn("a", "i32"), SymAnn("b", "f32"), SymAnn("c", "bool")>>, 0)

\* the function table of the enclosing pass: f : f32 and g without a result
BinFns ==
    emit_func(ToAST(Decl("g", FALSE, HeaderUnit, <<>>)),
              emit_func(ToAST(Decl("f", FALSE, HeaderF32, <<Sym("a")>>)), EmptyModule).module
             ).module.functions

Operands ==
    { One, OneAndHalf, Sym("a"), Sym("b"), Sym("c"),
      List(<<Add, Sym("a"), One>>),
      List(<<Mul, OneAndHalf, Sym("a")>>),
      List(<<Sub, Sym("b")>>),
      List(<<Sym("f"), Sym("b"), Two>>),
      List(<<Sym("g")>>) }

OpAST(op) == [k |-> op]

BinInputs ==
    [op : BinOps, lhs : Operands, rhs : Operands, codes : {<<>>, <<Op("Drop")>>}]

BinInit ==
    /\ module = EmptyModule
    /\ pc = "bin"
    /\ log = <<>>
    /\ err = "none"
    /\ out = <<>>
    /\ funcIter = <<>>
    /\ arg \in BinInputs
    /\ res = <<>>

\* (op lhs rhs) goes through emit_obj and emit_list to emit_bin_exp
EmitBinForm ==
    /\ pc = "bin"
    /\ res' = emit_obj(arg.codes, List(<<OpAST(arg.op), arg.lhs, arg.rhs>>), BinEnv, RefCell(BinFns))
    /\ pc' = "bin_done"
    /\ UNCHANGED <<module, log, err, out, funcIter, arg>>

BinNext == EmitBinForm

BinSpec == BinInit /\ [][BinNext]_vars

----------------------------------------------------------------------------
(* One list form on its own: an operator or a function name over up to     *)
(* MaxArgs operands, emitted in the scope BinEnv against the table BinFns. *)

Heads == {Add, Sub, Mul, Div, Sym("f"), Sym("g")}

\* z is bound to nothing
FormOperands ==
    { One, OneAndHalf, Sym("c"), Sym("z"),
      List(<<Add, Sym("a"), One>>),
      List(<<Sym("f"), One>>),
      List(<<Sym("g")>>) }

ArgsUpTo(n) == UNION {[1..k -> FormOperands] : k \in 0..n}

FormInputs ==
    [head : Heads, args : ArgsUpTo(MaxArgs), codes : {<<>>, <<Op("Drop")>>}]

FormInit ==
    /\ module = EmptyModule
    /\ pc = "form"
    /\ log = <<>>
    /\ err = "none"
    /\ out = <<>>
    /\ funcIter = <<>>
    /\ arg \in FormInputs
    /\ res = <<>>

\* (head args...) goes through emit_obj to emit_list
EmitForm ==
    /\ pc = "form"
    /\ res' = emit_obj(arg.codes, List(<<arg.head>> \o arg.args), BinEnv, RefCell(BinFns))
    /\ pc' = "form_done"
    /\ UNCHANGED <<module, log, err, out, funcIter, arg>>

FormNext == EmitForm

FormSpec == FormInit /\ [][FormNext]_vars

----------------------------------------------------------------------------
(* write_signature on its own, over the signatures of functions of up to   *)
(* MaxParams parameters.                                                   *)

SigInputs ==
    {SignatureOf([i \in 1..n |-> resolve_type(t)], rt) :
        n \in 0..MaxParams, t \in {"i32", "f32"}, rt \in {"unit", "i32", "f32"}}

SigInit ==
    /\ module = EmptyModule
    /\ pc = "sig"
    /\ log = <<>>
    /\ err = "none"
    /\ out = <<>>
    /\ funcIter = <<>>
    /\ arg \in SigInputs
    /\ res = <<>>

WriteSignature ==
    /\ pc = "sig"
    /\ res' = write_signature(arg)
    /\ pc' = "sig_done"
    /\ UNCHANGED <<module, log, err, out, funcIter, arg>>

SigNext == WriteSignature

SigSpec == SigInit /\ [][SigNext]_vars

----------------------------------------------------------------------------
(* encode_leb128 on its own, over u32 values given by their halves.        *)

Halves == {0, 1, 63, 64, 127, 128, 8191, 8192, 16383, 16384, 32767, 32768, 65535}

LebInputs == [hi : Halves, lo : Halves]

LebInit ==
    /\ module = EmptyModule
    /\ pc = "leb"
    /\ log = <<>>
    /\ err = "none"
    /\ out = <<>>
    /\ funcIter = <<>>
    /\ arg \in LebInputs
    /\ res = <<>>

EncodeLeb ==
    /\ pc = "leb"
    /\ res' = write_unsigned(arg.hi, arg.lo)
    /\ pc' = "leb_done"
    /\ UNCHANGED <<module, log, err, out, funcIter, arg>>

LebNext == EncodeLeb

LebSpec == LebInit /\ [][LebNext]_vars

----------------------------------------------------------------------------
(* What the claims are stated over: the declarations the pass has seen.    *)

OkEntries == {k \in DOMAIN log : log[k].st = "ok"}

OkBefore(k) == {j \in OkEntries : j < k}

NamesBefore(k) == {log[j].decl.name : j \in OkBefore(k)}

\* the latest successful declaration of name before entry k (0: none)
LatestBefore(k, name) ==
    LET js == {j \in OkBefore(k) : log[j].decl.name = name} IN
    IF js = {} THEN 0 ELSE CHOOSE j \in js : \A i \in js : i <= j

\* the stack slots of an annotated type: i32 and bool one I32 slot, f32 one
\* F32 slot, no annotation or unit none
SlotsOfAnnotation(t) ==
    CASE t \in {"i32", "bool"} -> <<"I32">>
      [] t = "f32" -> <<"F32">>
      [] OTHER -> <<>>

SlotsOfType(t) ==
    CASE t \in {"I32", "Bool"} -> <<"I32">>
      [] t = "F32" -> <<"F32">>
      [] OTHER -> <<>>

DeclSignature(d) ==
    [sig_type |-> "Func",
     params |-> Concat([i \in DOMAIN d.params |-> SlotsOfAnnotation(d.params[i].t)]),
     results |-> SlotsOfAnnotation(d.rt)]

SignaturesBefore(k) == {DeclSignature(log[j].decl) : j \in OkBefore(k)}

----------------------------------------------------------------------------
(* C1 *)

C1_Table ==
    /\ DOMAIN module.signatures = SignaturesBefore(Len(log) + 1)
    /\ {module.signatures[s] : s \in DOMAIN module.signatures}
          = 0 .. (Cardinality(DOMAIN module.signatures) - 1)
    /\ \A k \in OkEntries :
          DeclSignature(log[k].decl) \notin SignaturesBefore(k)
             => module.signatures[DeclSignature(log[k].decl)]
                   = Cardinality(SignaturesBefore(k))
    /\ \A name \in DOMAIN module.functions :
          module.functions[name].func.signature_index
             = module.signatures[
                  DeclSignature(log[LatestBefore(Len(log) + 1, name)].decl)]

C1_Stable ==
    \A s \in DOMAIN module.signatures :
        /\ s \in DOMAIN module'.signatures
        /\ module'.signatures[s] = module.signatures[s]

\* C1: structurally equal signatures share one index, the index of a signature
\* is its insertion rank among the distinct signatures (the indices in use are
\* 0..n-1), and an index once assigned never changes during the pass.
C1_SignatureInterning == [](C1_Table) /\ [][C1_Stable]_vars

\* three declarations, two of them with the same signature under different
\* result types (bool and i32), and a second signature
C1_Witness ==
    /\ Cardinality(OkEntries) = 3
    /\ Cardinality(DOMAIN module.signatures) = 2
    /\ \E j, k \in OkEntries :
          /\ log[j].decl.rt = "bool"
          /\ log[k].decl.rt = "i32"
          /\ DeclSignature(log[j].decl) = DeclSignature(log[k].decl)

----------------------------------------------------------------------------
(* C2 *)

\* the function a Call(n) designates
HasIndex(fns, n) == \E x \in DOMAIN fns : fns[x].index = n
WithIndex(fns, n) == fns[CHOOSE x \in DOMAIN fns : fns[x].index = n].func

ParamSlots(func) ==
    Len(Concat([i \in DOMAIN func.arg_types |-> SlotsOfType(func.arg_types[i])]))

Pops(opcode, fns) ==
    CASE opcode.op \in {"I32Add", "I32Sub", "I32Mul", "I32Div",
                        "F32Add", "F32Sub", "F32Mul", "F32Div"} -> 2
      [] opcode.op \in {"F32Neg", "F32ConvertI32S", "Drop"} -> 1
      [] opcode.op = "Call" ->
            IF HasIndex(fns, opcode.n) THEN ParamSlots(WithIndex(fns, opcode.n)) ELSE 0
      [] OTHER -> 0

Pushes(opcode, fns) ==
    CASE opcode.op \in {"I32Const", "F32Const", "LocalGet",
                        "I32Add", "I32Sub", "I32Mul", "I32Div",
                        "F32Add", "F32Sub", "F32Mul", "F32Div",
                        "F32Neg", "F32ConvertI32S"} -> 1
      [] opcode.op = "Call" ->
            IF HasIndex(fns, opcode.n)
            THEN Len(SlotsOfType(WithIndex(fns, opcode.n).result_type)) ELSE 0
      [] OTHER -> 0

\* the number of slots on the operand stack when End is reached, -1 if an
\* opcode finds fewer slots than it pops
RECURSIVE StackAtEnd(_, _, _, _)
StackAtEnd(body, i, depth, fns) ==
    IF i > Len(body) \/ body[i].op = "End" THEN depth
    ELSE IF depth < Pops(body[i], fns) THEN -1
    ELSE StackAtEnd(body, i + 1, depth - Pops(body[i], fns) + Pushes(body[i], fns), fns)

\* C2: the body of every registered function, run on an empty operand stack,
\* leaves len(dissolve(result_type)) slots when End is reached.
C2_StackBalanced ==
    \A name \in DOMAIN module.functions :
        StackAtEnd(module.functions[name].func.body, 1, 0, module.functions)
            = Len(SlotsOfType(module.functions[name].func.result_type))

----------------------------------------------------------------------------
(* C4 *)

\* the names a form calls
RECURSIVE CallNames(_)
CallNames(ast) ==
    IF ast.k = "List" /\ ast.items # <<>>
    THEN (IF ast.items[1].k = "Symbol" /\ ast.items[1].name # "let"
          THEN {ast.items[1].name} ELSE {})
         \cup UNION {CallNames(ast.items[i]) : i \in 2..Len(ast.items)}
    ELSE {}

CallNamesOf(d) == UNION {CallNames(d.forms[i]) : i \in DOMAIN d.forms}

\* the first body form is a call of a name
CallsFirst(d, name) ==
    /\ d.forms # <<>>
    /\ d.forms[1].k = "List"
    /\ d.forms[1].items # <<>>
    /\ d.forms[1].items[1] = Sym(name)

CallTargets(body) == {body[i].n : i \in {i \in DOMAIN body : body[i].op = "Call"}}

----------------------------------------------------------------------------
(* C5 *)

\* C5: after n successful declarations the function table holds n functions,
\* their indices are exactly 0..n-1, and the k-th declaration has index k-1.
C5_DeclarationIndices ==
    /\ Cardinality(DOMAIN module.functions) = Cardinality(OkEntries)
    /\ {module.functions[x].index : x \in DOMAIN module.functions}
          = 0 .. (Cardinality(OkEntries) - 1)
    /\ \A k \in OkEntries : log[k].index = k - 1
    /\ \A x, y \in DOMAIN module.functions :
          module.functions[x].index = module.functions[y].index => x = y

----------------------------------------------------------------------------
(* C3 *)

\* an operand emitted on its own
OperandResult(x) == emit_obj(<<>>, x, BinEnv, RefCell(BinFns))

ExpectedOpcode(op, t) ==
    CASE op = "Add" /\ t = "I32" -> [op |-> "I32Add"]
      [] op = "Sub" /\ t = "I32" -> [op |-> "I32Sub"]
      [] op = "Mul" /\ t = "I32" -> [op |-> "I32Mul"]
      [] op = "Div" /\ t = "I32" -> [op |-> "I32Div"]
      [] op = "Add" /\ t = "F32" -> [op |-> "F32Add"]
      [] op = "Sub" /\ t = "F32" -> [op |-> "F32Sub"]
      [] op = "Mul" /\ t = "F32" -> [op |-> "F32Mul"]
      [] op = "Div" /\ t = "F32" -> [op |-> "F32Div"]

Convert == <<[op |-> "F32ConvertI32S"]>>

ExpectedBinCodes(op, l, r) ==
    l.codes
    \o (IF l.t = "I32" /\ r.t = "F32" THEN Convert ELSE <<>>)
    \o r.codes
    \o (IF r.t = "I32" /\ l.t = "F32" THEN Convert ELSE <<>>)
    \o <<ExpectedOpcode(op, IF l.t = "I32" /\ r.t = "I32" THEN "I32" ELSE "F32")>>

BothNumeric(l, r) ==
    /\ l.st = "ok" /\ r.st = "ok"
    /\ l.t \in {"I32", "F32"} /\ r.t \in {"I32", "F32"}

\* C3: for + - * / over operands of types I32 and F32 the code appended is
\* the left operand's code, the right operand's code and one arithmetic
\* opcode; two I32 operands take the I32 opcode and give I32 without a
\* conversion; with one I32 and one F32 operand a single F32ConvertI32S follows
\* the I32 operand's code, the F32 opcode is used and the result is F32.
C3_BinaryCoercion ==
    (pc = "bin_done" /\ BothNumeric(OperandResult(arg.lhs), OperandResult(arg.rhs)))
        => /\ res.st = "ok"
           /\ res.t = (IF OperandResult(arg.lhs).t = "I32" /\ OperandResult(arg.rhs).t = "I32"
                       THEN "I32" ELSE "F32")
           /\ res.codes = arg.codes \o ExpectedBinCodes(arg.op, OperandResult(arg.lhs),
                                                        OperandResult(arg.rhs))

\* a division of an F32 parameter by a nested I32 form, after other code
C3_Witness ==
    /\ pc = "bin_done"
    /\ arg.op = "Div"
    /\ arg.lhs = Sym("b")
    /\ arg.rhs = List(<<Add, Sym("a"), One>>)
    /\ arg.codes # <<>>
    /\ res.st = "ok"
    /\ res.t = "F32"

----------------------------------------------------------------------------
(* A reader of the byte stream: unsigned LEB128 and the section framing.   *)

\* the unsigned LEB128 value at pos and the position after it
RECURSIVE DecodeLebFrom(_, _, _, _)
DecodeLebFrom(bytes, pos, mult, acc) ==
    IF pos > Len(bytes) THEN [ok |-> FALSE, value |-> 0, next |-> pos]
    ELSE IF bytes[pos] < 128
         THEN [ok |-> TRUE, value |-> acc + bytes[pos] * mult, next |-> pos + 1]
         ELSE DecodeLebFrom(bytes, pos + 1, mult * 128, acc + (bytes[pos] - 128) * mult)

DecodeLeb(bytes, pos) == DecodeLebFrom(bytes, pos, 1, 0)

Malformed == [id |-> -1, payload |-> <<>>]

\* the sections from pos on: id, length, that many bytes of payload
RECURSIVE ParseSections(_, _)
SectionAt(bytes, pos, len) ==
    IF ~len.ok \/ len.next + len.value - 1 > Len(bytes) THEN <<Malformed>>
    ELSE <<[id |-> bytes[pos], payload |-> SubSeq(bytes, len.next, len.next + len.value - 1)]>>
         \o ParseSections(bytes, len.next + len.value)

ParseSections(bytes, pos) ==
    IF pos > Len(bytes) THEN <<>> ELSE SectionAt(bytes, pos, DecodeLeb(bytes, pos + 1))

\* the unsigned LEB128 values a payload consists of
RECURSIVE DecodeLebs(_, _)
LebsAfter(bytes, v) ==
    IF ~v.ok THEN <<-1>> ELSE <<v.value>> \o DecodeLebs(bytes, v.next)

DecodeLebs(bytes, pos) ==
    IF pos > Len(bytes) THEN <<>> ELSE LebsAfter(bytes, DecodeLeb(bytes, pos))

Sections == ParseSections(out, 9)

\* the number of sections compile_into_wasm has written at pc
SectionsWritten ==
    CASE pc = "function" -> 1
      [] pc = "export" -> 2
      [] pc = "code" -> 3
      [] pc = "done" -> 4
      [] OTHER -> 0

FunctionWithIndex(i) ==
    module.functions[CHOOSE x \in DOMAIN module.functions : module.functions[x].index = i].func

----------------------------------------------------------------------------
(* C6 *)

FunctionCount == Cardinality(DOMAIN module.functions)

ExpectedCodeEntry(func) ==
    encode_leb128(Len(write_function_body(func.body))) \o write_function_body(func.body)

\* C6: the Function section is the count n and the signature indices of the
\* functions in declaration order (entry i belongs to the function with
\* declaration index i), and the Code section lists the bodies in that order.
C6_DeclarationOrder ==
    /\ pc \in {"export", "code", "done"} =>
          /\ DecodeLebs(Sections[2].payload, 1)[1] = FunctionCount
          /\ Len(DecodeLebs(Sections[2].payload, 1)) = FunctionCount + 1
          /\ \A i \in 0 .. (FunctionCount - 1) :
                /\ \E x \in DOMAIN module.functions : module.functions[x].index = i
                /\ DecodeLebs(Sections[2].payload, 1)[i + 2]
                      = FunctionWithIndex(i).signature_index
    /\ pc = "done" =>
          /\ \A i \in 0 .. (FunctionCount - 1) :
                \E x \in DOMAIN module.functions : module.functions[x].index = i
          /\ Sections[4].payload
                = encode_leb128(FunctionCount)
                  \o Concat([i \in 1 .. FunctionCount |->
                                ExpectedCodeEntry(FunctionWithIndex(i - 1))])

----------------------------------------------------------------------------
(* C7 *)

SlotByte(p) == IF p = "I32" THEN 127 ELSE 111

ExpectedSignatureBytes(sig) ==
    <<96, Len(sig.params)>> \o [i \in DOMAIN sig.params |-> SlotByte(sig.params[i])]
    \o <<Len(sig.results)>> \o [i \in DOMAIN sig.results |-> SlotByte(sig.results[i])]

SignatureCount == Cardinality(DOMAIN module.signatures)

SignatureWithIndex(i) == CHOOSE sig \in DOMAIN module.signatures : module.signatures[sig] = i

\* C7: the Type section payload is the number of distinct signatures and then
\* one entry per signature in ascending order of interned index, whatever the
\* order in which the interning table iterates.
C7_TypeSectionOrder ==
    pc \in {"function", "export", "code", "done"} =>
        /\ Sections[1].id = 1
        /\ \A i \in 0 .. (SignatureCount - 1) :
              \E sig \in DOMAIN module.signatures : module.signatures[sig] = i
        /\ Sections[1].payload
              = <<SignatureCount>>
                \o Concat([i \in 1 .. SignatureCount |->
                              ExpectedSignatureBytes(SignatureWithIndex(i - 1))])

\* the Type section of a module with three distinct signatures is written
C7_Witness ==
    /\ pc = "function"
    /\ SignatureCount = 3

----------------------------------------------------------------------------
(* C8 *)

\* the entries of a Code section payload after its count: a length and that
\* many bytes each
RECURSIVE ParseBodies(_, _)
BodyAt(bytes, len) ==
    IF ~len.ok \/ len.next + len.value - 1 > Len(bytes) THEN <<<<-1>>>>
    ELSE <<SubSeq(bytes, len.next, len.next + len.value - 1)>>
         \o ParseBodies(bytes, len.next + len.value)

ParseBodies(bytes, pos) ==
    IF pos > Len(bytes) THEN <<>> ELSE BodyAt(bytes, DecodeLeb(bytes, pos))

CodeBodies == ParseBodies(Sections[4].payload, DecodeLeb(Sections[4].payload, 1).next)

\* C8: each section written is an id byte, a length equal to the number of
\* payload bytes that follow, and the payload; in the Code section each
\* function's length prefix is the number of bytes of its serialized body.
C8_LengthPrefixes ==
    /\ pc \in {"type", "function", "export", "code", "done"} =>
          /\ Len(Sections) = SectionsWritten
          /\ \A i \in DOMAIN Sections : Sections[i] # Malformed
    /\ pc = "done" =>
          /\ Len(CodeBodies) = FunctionCount
          /\ \A i \in DOMAIN CodeBodies :
                CodeBodies[i] = write_function_body(module.functions[funcIter[i]].func.body)

\* a stream whose Code section holds a body of 128 bytes or more, so that the
\* lengths take more than one byte
C8_Witness ==
    /\ pc = "done"
    /\ \E i \in DOMAIN CodeBodies : Len(CodeBodies[i]) >= 128
    /\ FunctionCount = 2

----------------------------------------------------------------------------
(* C9 *)

\* C9: a finished stream begins with 00 61 73 6D 01 00 00 00 and continues
\* with exactly the sections Type, Function, Export, Code, in that order.
C9_HeaderAndSections ==
    /\ pc \in {"type", "function", "export", "code", "done"} =>
          /\ SubSeq(out, 1, 8) = <<0, 97, 115, 109, 1, 0, 0, 0>>
          /\ [i \in DOMAIN Sections |-> Sections[i].id]
                = SubSeq(<<1, 3, 7, 10>>, 1, SectionsWritten)
    /\ pc = "done" => Len(Sections) = 4

\* the stream of a module without functions
C9_Witness ==
    /\ pc = "done"
    /\ log = <<>>
    /\ Len(out) = 20

----------------------------------------------------------------------------
(* C10 *)

\* the exports the first k declarations ask for
RECURSIVE ExportsUpTo(_)
ExportsUpTo(k) ==
    IF k = 0 THEN <<>>
    ELSE IF log[k].st = "ok" /\ log[k].decl.is_export
         THEN Append(ExportsUpTo(k - 1),
                     [export_type |-> "Func", name |-> log[k].decl.name,
                      func_index |-> log[k].index])
         ELSE ExportsUpTo(k - 1)

\* C10: the export list holds one entry per declaration that carried the
\* export marker and none for the others, in declaration order, each with kind
\* Function, the declared name and the index assigned to that declaration
\* (0 when the only declaration is exported).
C10_Exports ==
    /\ module.exports = ExportsUpTo(Len(log))
    /\ (Len(log) = 1 /\ log[1].st = "ok" /\ log[1].decl.is_export)
          => module.exports = <<[export_type |-> "Func", name |-> log[1].decl.name,
                                 func_index |-> 0]>>

\* three declarations of which the first and the last are exported
C10_Witness ==
    /\ Cardinality(OkEntries) = 3
    /\ log[1].decl.is_export
    /\ ~log[2].decl.is_export
    /\ log[3].decl.is_export
    /\ Len(module.exports) = 2

----------------------------------------------------------------------------
(* C11 *)

\* the head of the form names a function of the table
HeadDeclared == arg.head.k = "Symbol" /\ arg.head.name \in DOMAIN BinFns

\* every argument, emitted on its own, succeeds
ArgsEmit == \A i \in DOMAIN arg.args : OperandResult(arg.args[i]).st = "ok"

ArgCodes == Concat([i \in DOMAIN arg.args |-> OperandResult(arg.args[i]).codes])

\* C11: a call form whose head names a declared function and whose arguments
\* each emit successfully (arguments that are calls included) succeeds, appends
\* the code of the arguments from left to right and then one Call with the
\* callee's declaration index, and returns the callee's result type.
C11_CallEmission ==
    (pc = "form_done" /\ HeadDeclared /\ ArgsEmit) =>
        res = Ok(arg.codes \o ArgCodes \o <<OpN("Call", BinFns[arg.head.name].index)>>,
                 BinFns[arg.head.name].func.result_type)

\* the same for the forms none of whose arguments holds a call
NoCallIn(x) == CallNames(x) = {}

C11_FlatCalls ==
    (pc = "form_done" /\ HeadDeclared /\ ArgsEmit
        /\ \A i \in DOMAIN arg.args : NoCallIn(arg.args[i])) =>
        res = Ok(arg.codes \o ArgCodes \o <<OpN("Call", BinFns[arg.head.name].index)>>,
                 BinFns[arg.head.name].func.result_type)

----------------------------------------------------------------------------
(* C12 *)

DeclaredType(rt) ==
    CASE rt = "i32" -> "I32" [] rt = "f32" -> "F32" [] rt = "bool" -> "Bool" [] OTHER -> "Unit"

\* the scope of the body of declaration d
DeclEnv(d) ==
    BindArgs(EmptyEnv, [i \in DOMAIN d.params |-> SymAnn(d.params[i].name, d.params[i].t)], 0)

\* form i of declaration d emitted on its own against the function table fns
FormResult(d, i, fns) == emit_obj(<<>>, d.forms[i], DeclEnv(d), RefCell(fns))

DrainedForms(d, fns) ==
    Concat([i \in DOMAIN d.forms |->
              FormResult(d, i, fns).codes
              \o Repeat(Op("Drop"), Len(SlotsOfType(FormResult(d, i, fns).t)))])

\* the step that processes declaration d with outcome e, the table being fns
\* before it and fns2 after it
ReturnRule(d, e, fns, fns2) ==
    (d.forms # <<>> /\ \A i \in DOMAIN d.forms : FormResult(d, i, fns).st = "ok") =>
        IF DeclaredType(d.rt) = "Unit"
        THEN /\ e.st = "ok"
             /\ fns2[d.name].func.body
                    = <<OpN("LocalDeclCount", 0)>> \o DrainedForms(d, fns) \o <<Op("End")>>
        ELSE IF FormResult(d, Len(d.forms), fns).t = DeclaredType(d.rt)
             THEN e.st = "ok"
             ELSE e.st = "ReturnTypeMismatchError"

\* C12: a declaration without result type drains its last form with one Drop
\* per slot and succeeds whatever the type of that form; a declaration with a
\* result type succeeds only if the type of its last form is exactly that
\* type (Bool and I32 differ), and fails with the return-type-mismatch error
\* otherwise.
C12_ReturnTypeRule ==
    [][Len(log') = Len(log) + 1 =>
         ReturnRule(log'[Len(log')].decl, log'[Len(log')], module.functions,
                    module'.functions)]_vars

\* f : bool is declared, then g : i32 ends in a call of f and is refused
C12_Witness ==
    /\ Len(log) = 2
    /\ log[1].st = "ok"
    /\ log[1].decl.rt = "bool"
    /\ log[2].decl.rt = "i32"
    /\ CallsFirst(log[2].decl, log[1].decl.name)
    /\ Len(log[2].decl.forms) = 1
    /\ log[2].st = "ReturnTypeMismatchError"

----------------------------------------------------------------------------
(* C13 *)

\* the operand counts the operator at the head of the form refuses
WrongArity ==
    \/ arg.head.k \in {"Add", "Mul", "Div"} /\ Len(arg.args) # 2
    \/ arg.head.k = "Sub" /\ Len(arg.args) \notin {1, 2}

\* C13: +, * and / with other than two operands, and - with none or with
\* three or more, fail with the arity error and append no opcode to the
\* buffer of the enclosing expression.
C13_ArityErrors ==
    (pc = "form_done" /\ WrongArity) =>
        (res.st = "ArityError" /\ res.codes = arg.codes)

\* (- x y z) emitted into a buffer that already holds an opcode
C13_Witness ==
    /\ pc = "form_done"
    /\ arg.head = Sub
    /\ Len(arg.args) = 3
    /\ \A i \in DOMAIN arg.args : OperandResult(arg.args[i]).st = "ok"
    /\ arg.codes # <<>>
    /\ res.st = "ArityError"

----------------------------------------------------------------------------
(* C14 *)

\* what the claim expects of (- x), r being x emitted on its own
ExpectedUnary(r) ==
    CASE r.t = "F32" -> res = Ok(arg.codes \o r.codes \o <<Op("F32Neg")>>, "F32")
      [] r.t = "I32" ->
            res = Ok(arg.codes \o <<OpN("I32Const", 0)>> \o r.codes \o <<Op("I32Sub")>>, "I32")
      [] OTHER -> res.st = "TypeMismatchError" /\ res.codes = arg.codes

\* C14: (- x) with x of type F32 emits x then F32Neg and is F32; with x of
\* type I32 it emits I32Const(0), x, I32Sub and is I32; with x of any other
\* type it fails with the type-mismatch error and appends nothing.
C14_UnaryMinus ==
    (pc = "form_done" /\ arg.head = Sub /\ Len(arg.args) = 1
        /\ OperandResult(arg.args[1]).st = "ok") =>
        ExpectedUnary(OperandResult(arg.args[1]))

\* (- (+ a 1)) emitted behind an opcode already in the buffer
C14_Witness ==
    /\ pc = "form_done"
    /\ arg.head = Sub
    /\ arg.args = <<List(<<Add, Sym("a"), One>>)>>
    /\ arg.codes # <<>>
    /\ res.st = "ok"
    /\ res.t = "I32"

----------------------------------------------------------------------------
(* C15 *)

Failures == {k \in DOMAIN log : log[k].st # "ok"}

\* C15: a failure of any kind reaches the caller of compile_into_wasm as a
\* returned error: the pass never ends by a panic, and after a failure no
\* byte is serialized.
C15_ErrorsReturned ==
    /\ pc # "panicked"
    /\ Failures # {} => (pc \in {"failed", "panicked"} /\ out = <<>>)

\* the part of it that holds: after a failure nothing is serialized
C15_NotSwallowed ==
    Failures # {} => (pc \in {"failed", "panicked"} /\ out = <<>>)

----------------------------------------------------------------------------
(* C16 *)

\* a standard unsigned LEB128 decoder over the halves: group number i (from
\* 0) is added at bit 7 * i
GroupHi(g, shift) == IF shift < 16 THEN (g * Pow(2, shift)) \div 65536 ELSE g * Pow(2, shift - 16)
GroupLo(g, shift) == IF shift < 16 THEN (g * Pow(2, shift)) % 65536 ELSE 0

RECURSIVE DecodeHalves(_, _, _, _)
DecodeHalves(bytes, pos, hi, lo) ==
    IF pos > Len(bytes) THEN [ok |-> FALSE, hi |-> hi, lo |-> lo, next |-> pos]
    ELSE IF bytes[pos] < 128
         THEN [ok |-> TRUE,
               hi |-> hi + GroupHi(bytes[pos], 7 * (pos - 1)),
               lo |-> lo + GroupLo(bytes[pos], 7 * (pos - 1)),
               next |-> pos + 1]
         ELSE DecodeHalves(bytes, pos + 1,
                           hi + GroupHi(bytes[pos] - 128, 7 * (pos - 1)),
                           lo + GroupLo(bytes[pos] - 128, 7 * (pos - 1)))

\* the number of 7-bit groups the value needs
GroupsNeeded(hi, lo) ==
    CASE hi = 0 /\ lo < 128 -> 1
      [] hi = 0 /\ lo < 16384 -> 2
      [] hi < 32 -> 3
      [] hi < 4096 -> 4
      [] OTHER -> 5

\* C16: the bytes of encode_leb128(n) decode back to n with nothing left
\* over, every byte but the last has the high bit set and the last has it
\* clear, and there are as many bytes as n has 7-bit groups.
C16_LebRoundTrip ==
    pc = "leb_done" =>
        /\ DecodeHalves(res, 1, 0, 0)
              = [ok |-> TRUE, hi |-> arg.hi, lo |-> arg.lo, next |-> Len(res) + 1]
        /\ \A i \in DOMAIN res : res[i] \in 0..255 /\ (res[i] >= 128 <=> i < Len(res))
        /\ Len(res) = GroupsNeeded(arg.hi, arg.lo)

\* 2^32 - 1 is encoded in five bytes
C16_Witness ==
    /\ pc = "leb_done"
    /\ arg = [hi |-> 65535, lo |-> 65535]
    /\ res = <<255, 255, 255, 255, 15>>

----------------------------------------------------------------------------
(* C17 *)

\* the byte encoding the opcode table fixes
TableBytes(opcode) ==
    CASE opcode.op = "End" -> <<11>>
      [] opcode.op = "LocalDeclCount" -> encode_leb128(opcode.n)
      [] opcode.op = "LocalGet" -> <<32>> \o encode_leb128(opcode.n)
      [] opcode.op = "I32Const" -> <<65>> \o encode_s_leb128(opcode.n)
      [] opcode.op = "F32Const" -> <<67>> \o to_le_bytes(opcode.n)
      [] opcode.op = "I32Add" -> <<106>>
      [] opcode.op = "I32Sub" -> <<107>>
      [] opcode.op = "I32Mul" -> <<108>>
      [] opcode.op = "I32Div" -> <<109>>
      [] opcode.op = "F32Add" -> <<146>>
      [] opcode.op = "F32Sub" -> <<147>>
      [] opcode.op = "F32Mul" -> <<148>>
      [] opcode.op = "F32Div" -> <<149>>
      [] opcode.op = "F32Neg" -> <<140>>
      [] opcode.op = "F32ConvertI32S" -> <<178>>
      [] opcode.op = "Drop" -> <<26>>
      [] opcode.op = "Call" -> <<16>> \o encode_leb128(opcode.n)

TableBody(body) == Concat([i \in DOMAIN body |-> TableBytes(body[i])])

\* the bodies of the Code section are those of the functions, as the table
\* encodes them, in the order the section was written in
BodiesByTable ==
    /\ Len(CodeBodies) = Len(funcIter)
    /\ \A i \in DOMAIN funcIter :
          CodeBodies[i] = TableBody(module.functions[funcIter[i]].func.body)

\* C17: every body the emitter produced is serialized opcode by opcode to the
\* bytes of the opcode table, Drop and Call included; no body is rejected.
C17_OpcodeTable ==
    /\ pc # "write_failed"
    /\ pc = "done" => BodiesByTable

\* the part of it that holds: the bodies that are written follow the table
C17_WrittenBodies == pc = "done" => BodiesByTable

----------------------------------------------------------------------------
(* C18 *)

\* the bytes written for a signature read back: kind byte, varint count,
\* that many parameter bytes, varint count, that many result bytes
ReadBack(bytes, np) ==
    LET nr == DecodeLeb(bytes, np.next + np.value) IN
    /\ np.ok
    /\ np.value = Len(arg.params)
    /\ nr.ok
    /\ nr.value = Len(arg.results)
    /\ Len(bytes) = nr.next + nr.value - 1
    /\ SubSeq(bytes, np.next, np.next + np.value - 1)
          = [i \in DOMAIN arg.params |-> PrimitiveByte(arg.params[i])]

\* C18: the parameter count and the result count of a signature are written
\* as unsigned varints of the true counts, so that the count a LEB128 decoder
\* reads back is the number of parameter bytes that follow.
C18_SignatureCounts ==
    pc = "sig_done" =>
        /\ ReadBack(res, DecodeLeb(res, 2))
        /\ SubSeq(res, 2, 1 + Len(encode_leb128(Len(arg.params))))
              = encode_leb128(Len(arg.params))

\* the part of it that holds: signatures of fewer than 128 parameters
C18_ShortSignatures ==
    (pc = "sig_done" /\ Len(arg.params) < 128) => ReadBack(res, DecodeLeb(res, 2))

----------------------------------------------------------------------------
(* C19 *)

\* C19: a declaration that fails leaves the module as it was: no signature,
\* function or export is added, replaced or removed.
C19_FailureFrame ==
    [][(Len(log') = Len(log) + 1 /\ log'[Len(log')].st # "ok") => module' = module]_vars

\* a declaration refused at its header
C19_HeaderFailure ==
    \E k \in DOMAIN log :
        log[k].st = "MalformedFormError" /\ ParseHeader(ToAST(log[k].decl)).st # "ok"

\* after two declarations a third has failed at a body form, and its
\* signature is not one of the table
C19_Witness ==
    /\ Len(log) = 3
    /\ log[1].st = "ok"
    /\ log[2].st = "ok"
    /\ log[3].st \notin {"ok", "panic"}
    /\ log[3].decl.forms # <<>>
    /\ DeclSignature(log[3].decl) \notin DOMAIN module.signatures
    /\ Cardinality(DOMAIN module.functions) = 2

----------------------------------------------------------------------------
(* C20 *)

\* C20: every entry of the export list has a function index smaller than the
\* number of functions in the function table.
C20_ExportIndexInRange ==
    \A i \in DOMAIN module.exports :
        module.exports[i].func_index < Cardinality(DOMAIN module.functions)

====
